---- MODULE Spec2Model ----
(***************************************************************************)
(* Model of the Discovery Engine control-plane helpers of geo-intents:     *)
(*   app/utils/datastore_manager.py      (DataStore lifecycle, imports,    *)
(*                                        LRO polling)                     *)
(*   app/agents/utils/engine_manager.py  (Engine lifecycle)                *)
(* The remote Discovery Engine service is the environment: it holds the    *)
(* data stores, the engines, the import operations and the documents of    *)
(* each branch, and answers each request the helpers transmit.  The        *)
(* sources an import reads (a GCS object, a BigQuery table) are external   *)
(* data that no step changes.                                              *)
(*                                                                         *)
(* An optional Python value (Optional[T], default None) is a set with at   *)
(* most one element: {} is None and {v} is the value v.                    *)
(***************************************************************************)
EXTENDS Integers, Sequences, FiniteSets, TLC

VARIABLES
    stores,     \* remote: data store id -> optional DataStore
    engines,    \* remote: engine id -> optional Engine
    jobs,       \* remote: the import operations submitted so far, in order
    pc,         \* per caller: idle, or blocked inside a helper on an LRO
    lastCall,   \* the helper call that returned or raised most recently
    sources,    \* external: source reference -> the documents it holds
    docs,       \* remote: branch -> the documents the branch holds, by key
    client,     \* the DiscoverySearchClient object's own state
    adc,        \* external: the access token the ambient credentials give now
    addressed,  \* the store addressing call made last and what it reached
    route,      \* the route_intent call in progress, if any
    routeLog    \* the route_intent calls that have ended, in order

\* The state of the agent side: search client, addressing, intent router.
agentVars == <<client, adc, addressed, route, routeLog>>

\* The state of the control-plane helpers and of the remote service.
serviceVars == <<stores, engines, jobs, pc, sources, docs>>

vars == <<stores, engines, jobs, pc, lastCall, sources, docs, agentVars>>

(* ------------------------------ bounds -------------------------------- *)

MaxJobs == 2

\* The status checks of one wait are counted up to MaxPolls; further checks
\* leave the count there.
MaxPolls == 2

\* The ambient credentials hand out the access tokens 1..MaxTokens, one
\* after the other as each expires.
MaxTokens == 3

\* The budget of a wait with a timeout, in status checks: the wait is to
\* give up instead of making a check beyond it.
TimeoutPolls == 1

(* --------------------------- value domains ---------------------------- *)

Callers == {"c1"}
StoreIds == {"s1", "s2"}
EngineIds == {"e1"}
BranchIds == {"default_branch"}
Names == {"a", "b"}

\* The keys a document can be stored under, and the source references that
\* hold documents: the GCS object and the BigQuery table.
DocKeys == {"1", "2", "3"}
SourceRefs == {<<"gs://b/a.json">>, <<"p", "d", "t">>}

None == {}
Some(v) == {v}
Opt(S) == {None} \cup {Some(v) : v \in S}
Val(o) == CHOOSE v \in o : TRUE

SeqToSet(s) == {s[i] : i \in 1..Len(s)}

NoReq == [kind |-> "none"]
NoRet == [kind |-> "none"]
Idle == [state |-> "idle"]

(* ------------------------- helpers: names ----------------------------- *)

\* def datastore_name(project_id, location, data_store_id): three parameters.
datastore_name_params == 3

\* update_datastore and delete_datastore call
\* datastore_name(project_id, location, data_store_id, collection_id).
datastore_name_args_update == 4
datastore_name_args_delete == 4

\* get_datastore calls datastore_name(project_id, location, data_store_id).
datastore_name_args_get == 3

\* Python raises TypeError when a call passes more positional arguments
\* than the function has parameters.
CallRaisesTypeError(nargs, nparams) == nargs > nparams

datastore_name(data_store_id) == [kind |-> "dataStore", id |-> data_store_id]

engine_name(engine_id) == [kind |-> "engine", id |-> engine_id]

branch_path(data_store_id, branch_id) ==
    [store |-> data_store_id, branch |-> branch_id]

(* ----------------------- call records --------------------------------- *)

NoPre == [kind |-> "none"]

\* A call in progress: the helper, its arguments, the number of requests
\* it has submitted to the service, the last request submitted, what the
\* remote side held about the call's target when the call began, the import
\* operation the call started (0 if none) and the number of status checks
\* (op.done()) the call has made of it.
CallPre(fn, args, nreq, req, pre) ==
    [fn |-> fn, args |-> args, nreq |-> nreq, req |-> req, pre |-> pre,
     job |-> 0, polls |-> 0]

Call(fn, args, nreq, req) == CallPre(fn, args, nreq, req, NoPre)

\* The call as the caller sees it end: "ok" or the exception raised.
Ended(call, outcome, ret) ==
    [fn |-> call.fn, args |-> call.args, nreq |-> call.nreq,
     req |-> call.req, pre |-> call.pre, job |-> call.job,
     polls |-> call.polls, outcome |-> outcome, ret |-> ret]

NoCall == Ended(Call("none", [x |-> 0], 0, NoReq), "ok", NoRet)

\* A branch that holds no document.
NoDocs == [k \in DocKeys |-> {}]

InitControl ==
    /\ stores = [s \in StoreIds |->
                    IF s = "s1"
                    THEN Some([display_name |-> "a",
                               industry_vertical |-> "GENERIC",
                               solution_types |-> <<"SEARCH">>,
                               content_config |-> "NO_CONTENT"])
                    ELSE None]
    /\ engines = [e \in EngineIds |-> None]
    /\ jobs = << >>
    /\ pc = [c \in Callers |-> Idle]
    /\ lastCall = NoCall

\* DiscoverySearchClient.__init__ has run (self._access_token = None), the
\* ambient credentials give their first token, and nothing has been
\* addressed or routed.
InitAgent ==
    /\ client = [engine_id |-> "e1", _access_token |-> None]
    /\ adc = 1
    /\ addressed = [created |-> {}, call |-> [fn |-> "none"]]
    /\ route = [at |-> "idle", handlers |-> << >>]
    /\ routeLog = << >>

\* The service right after set-up: the sources are empty and so is every
\* branch.
Init ==
    /\ InitControl
    /\ InitAgent
    /\ sources = [r \in SourceRefs |-> {}]
    /\ docs = [s \in StoreIds, b \in BranchIds |-> NoDocs]

\* The service in use: the GCS object holds one document, whose `id` field
\* differs from the key the service would give it, the BigQuery table holds
\* another document under the same default key, and the branch of s1 holds
\* a document from an earlier import that neither source has.
InitReconcile ==
    /\ InitControl
    /\ InitAgent
    /\ sources = [r \in SourceRefs |->
                     IF Len(r) = 1
                     THEN {[_id |-> "1", id |-> "2", body |-> "a"]}
                     ELSE {[_id |-> "1", id |-> "1", body |-> "b"]}]
    /\ docs = [s \in StoreIds, b \in BranchIds |->
                  IF s = "s1" THEN [NoDocs EXCEPT !["3"] = {"c"}]
                  ELSE NoDocs]

(* ===================== DataStore lifecycle ============================ *)

DataStore(display_name, industry_vertical, solution_types, content_config) ==
    [display_name |-> display_name,
     industry_vertical |-> industry_vertical,
     solution_types |-> solution_types,
     content_config |-> content_config]

\* A message built with no fields set carries the proto3 defaults.
DataStoreDefault ==
    DataStore("", "INDUSTRY_VERTICAL_UNSPECIFIED", << >>,
              "CONTENT_CONFIG_UNSPECIFIED")

\* The remote service writes the masked paths of `patch` into `old`.
ApplyDataStoreMask(old, patch, paths) ==
    [f \in DOMAIN old |-> IF f \in paths THEN patch[f] ELSE old[f]]

\* create_datastore: one CreateDataStoreRequest, then op.result().  The
\* signature has no exists_ok parameter: passing one raises TypeError
\* before the body runs.
create_datastore(c, data_store_id, display_name, exists_ok) ==
    /\ pc[c] = Idle
    /\ LET args == [data_store_id |-> data_store_id,
                    display_name |-> display_name,
                    exists_ok |-> exists_ok]
           ds == DataStore(display_name, "GENERIC", <<"SEARCH">>, "NO_CONTENT")
           req == [kind |-> "CreateDataStore",
                   parent |-> "default_collection",
                   data_store |-> ds,
                   data_store_id |-> data_store_id]
       IN IF exists_ok # None
          THEN /\ lastCall' = Ended(Call("create_datastore", args, 0, NoReq),
                                    "TypeError", NoRet)
               /\ UNCHANGED <<stores, engines, jobs, pc, sources, docs,
                              agentVars>>
          ELSE /\ pc' = [pc EXCEPT ![c] =
                            [state |-> "awaiting",
                             call |-> Call("create_datastore", args, 1, req),
                             op |-> [done |-> FALSE, error |-> "none"]]]
               /\ UNCHANGED <<stores, engines, jobs, lastCall, sources, docs,
                              agentVars>>

\* get_datastore: one GetDataStoreRequest, no LRO.
get_datastore(c, data_store_id) ==
    /\ pc[c] = Idle
    /\ LET args == [data_store_id |-> data_store_id]
           req == [kind |-> "GetDataStore",
                   name |-> datastore_name(data_store_id)]
           call == Call("get_datastore", args, 1, req)
       IN IF CallRaisesTypeError(datastore_name_args_get, datastore_name_params)
          THEN lastCall' = Ended(Call("get_datastore", args, 0, NoReq),
                                 "TypeError", NoRet)
          ELSE IF stores[data_store_id] = None
          THEN lastCall' = Ended(call, "NotFound", NoRet)
          ELSE lastCall' = Ended(call, "ok",
                                 [kind |-> "DataStore", id |-> data_store_id,
                                  value |-> Val(stores[data_store_id])])
    /\ UNCHANGED <<stores, engines, jobs, pc, sources, docs, agentVars>>

\* The paths update_datastore sends, from its keyword arguments kw:
\* update_mask_paths when it is given and non-empty, otherwise the names of
\* the keyword arguments that are not None.
update_datastore_paths(kw) ==
    IF kw.update_mask_paths = None \/ Val(kw.update_mask_paths) = << >>
    THEN (IF kw.display_name # None THEN <<"display_name">> ELSE << >>)
         \o (IF kw.industry_vertical # None
             THEN <<"industry_vertical">> ELSE << >>)
         \o (IF kw.solution_types # None THEN <<"solution_types">> ELSE << >>)
         \o (IF kw.content_config # None THEN <<"content_config">> ELSE << >>)
    ELSE Val(kw.update_mask_paths)

\* The DataStore message update_datastore builds: only the given fields set.
update_datastore_current(kw) ==
    DataStore(IF kw.display_name # None THEN Val(kw.display_name)
              ELSE DataStoreDefault.display_name,
              IF kw.industry_vertical # None THEN Val(kw.industry_vertical)
              ELSE DataStoreDefault.industry_vertical,
              IF kw.solution_types # None THEN Val(kw.solution_types)
              ELSE DataStoreDefault.solution_types,
              IF kw.content_config # None THEN Val(kw.content_config)
              ELSE DataStoreDefault.content_config)

\* update_datastore: its second statement calls datastore_name with four
\* arguments, which raises TypeError before any request is built.
update_datastore(c, data_store_id, kw) ==
    /\ pc[c] = Idle
    /\ LET args == [data_store_id |-> data_store_id, kw |-> kw]
           current == update_datastore_current(kw)
           paths == update_datastore_paths(kw)
           req == [kind |-> "UpdateDataStore",
                   name |-> datastore_name(data_store_id),
                   data_store |-> current,
                   update_mask |-> paths]
           pre == [value |-> stores[data_store_id]]
           call == CallPre("update_datastore", args, 1, req, pre)
       IN IF CallRaisesTypeError(datastore_name_args_update,
                                 datastore_name_params)
          THEN /\ lastCall' = Ended(CallPre("update_datastore", args, 0,
                                            NoReq, pre),
                                    "TypeError", NoRet)
               /\ UNCHANGED stores
          ELSE IF stores[data_store_id] = None
          THEN /\ lastCall' = Ended(call, "NotFound", NoRet)
               /\ UNCHANGED stores
          ELSE LET new == ApplyDataStoreMask(Val(stores[data_store_id]),
                                             current, SeqToSet(paths))
               IN /\ stores' = [stores EXCEPT ![data_store_id] = Some(new)]
                  /\ lastCall' = Ended(call, "ok",
                                       [kind |-> "DataStore",
                                        id |-> data_store_id, value |-> new])
    /\ UNCHANGED <<engines, jobs, pc, sources, docs, agentVars>>

\* delete_datastore: its second statement calls datastore_name with four
\* arguments, which raises TypeError before the delete request is sent.
\* The signature has no ignore_missing parameter either.
delete_datastore(c, data_store_id, ignore_missing) ==
    /\ pc[c] = Idle
    /\ LET args == [data_store_id |-> data_store_id,
                    ignore_missing |-> ignore_missing]
           req == [kind |-> "DeleteDataStore",
                   name |-> datastore_name(data_store_id)]
           pre == [missing |-> stores[data_store_id] = None]
       IN IF \/ ignore_missing # None
             \/ CallRaisesTypeError(datastore_name_args_delete,
                                    datastore_name_params)
          THEN /\ lastCall' = Ended(CallPre("delete_datastore", args, 0, NoReq,
                                            pre),
                                    "TypeError", NoRet)
               /\ UNCHANGED pc
          ELSE /\ pc' = [pc EXCEPT ![c] =
                            [state |-> "awaiting",
                             call |-> CallPre("delete_datastore", args, 1, req,
                                              pre),
                             op |-> [done |-> FALSE, error |-> "none"]]]
               /\ UNCHANGED lastCall
    /\ UNCHANGED <<stores, engines, jobs, sources, docs, agentVars>>

(* ======================= Engine lifecycle ============================= *)

\* A variant that attaches search_engine_config whatever the solution type.
create_engine_message_any_type(display_name, data_store_id, kw) ==
    [display_name |-> display_name,
     data_store_ids |-> <<data_store_id>>,
     solution_type |-> kw.solution_type,
     industry_vertical |-> "GENERIC",
     disable_analytics |-> FALSE,
     search_engine_config |->
        Some([search_tier |-> kw.search_tier,
              search_add_ons |-> kw.search_add_ons])]

\* The Engine message create_engine builds; search_engine_config is attached
\* only if solution_type == SEARCH.  An empty search_add_ons is passed as
\* None, which leaves the repeated field empty.
create_engine_message(display_name, data_store_id, kw) ==
    [display_name |-> display_name,
     data_store_ids |-> <<data_store_id>>,
     solution_type |-> kw.solution_type,
     industry_vertical |-> "GENERIC",
     disable_analytics |-> FALSE,
     search_engine_config |->
        IF kw.solution_type = "SOLUTION_TYPE_SEARCH"
        THEN Some([search_tier |-> kw.search_tier,
                   search_add_ons |-> IF kw.search_add_ons # << >>
                                      THEN kw.search_add_ons ELSE << >>])
        ELSE None]

\* create_engine: one CreateEngineRequest, then op.result().  The body
\* never looks the data store up: the request is sent whether or not the
\* store exists.
create_engine(c, engine_id, display_name, data_store_id, kw) ==
    /\ pc[c] = Idle
    /\ LET args == [engine_id |-> engine_id, display_name |-> display_name,
                    data_store_id |-> data_store_id, kw |-> kw]
           req == [kind |-> "CreateEngine",
                   parent |-> "default_collection",
                   engine |-> create_engine_message(display_name,
                                                    data_store_id, kw),
                   engine_id |-> engine_id]
           pre == [store_missing |-> stores[data_store_id] = None]
       IN IF kw.exists_ok # None
          THEN /\ lastCall' = Ended(CallPre("create_engine", args, 0, NoReq,
                                            pre),
                                    "TypeError", NoRet)
               /\ UNCHANGED pc
          ELSE /\ pc' = [pc EXCEPT ![c] =
                            [state |-> "awaiting",
                             call |-> CallPre("create_engine", args, 1, req,
                                              pre),
                             op |-> [done |-> FALSE, error |-> "none"]]]
               /\ UNCHANGED lastCall
    /\ UNCHANGED <<stores, engines, jobs, sources, docs, agentVars>>

\* get_engine: one GetEngineRequest, no LRO.
get_engine(c, engine_id) ==
    /\ pc[c] = Idle
    /\ LET args == [engine_id |-> engine_id]
           req == [kind |-> "GetEngine", name |-> engine_name(engine_id)]
           call == Call("get_engine", args, 1, req)
       IN IF engines[engine_id] = None
          THEN lastCall' = Ended(call, "NotFound", NoRet)
          ELSE lastCall' = Ended(call, "ok",
                                 [kind |-> "Engine", id |-> engine_id,
                                  value |-> Val(engines[engine_id])])
    /\ UNCHANGED <<stores, engines, jobs, pc, sources, docs, agentVars>>

\* The paths update_engine sends: one per keyword argument that is not None,
\* appended as the argument is copied into the message.
update_engine_paths(display_name, disable_analytics) ==
    (IF display_name # None THEN <<"display_name">> ELSE << >>)
    \o (IF disable_analytics # None THEN <<"disable_analytics">> ELSE << >>)

\* The Engine fields update_engine sets on Engine(name=name).
update_engine_message(display_name, disable_analytics) ==
    [display_name |-> IF display_name # None THEN Val(display_name) ELSE "",
     disable_analytics |-> IF disable_analytics # None
                           THEN Val(disable_analytics) ELSE FALSE]

\* The remote service writes the masked paths of `patch` into `old`.
ApplyEngineMask(old, patch, paths) ==
    [f \in DOMAIN old |-> IF f \in paths THEN patch[f] ELSE old[f]]

\* update_engine: one UpdateEngineRequest carrying the message and the
\* mask, no LRO.  The service either rejects a request whose mask is empty
\* or accepts it and changes nothing (emptyMaskOk).
update_engine(c, engine_id, display_name, disable_analytics, emptyMaskOk) ==
    /\ pc[c] = Idle
    /\ LET args == [engine_id |-> engine_id, display_name |-> display_name,
                    disable_analytics |-> disable_analytics]
           patch == update_engine_message(display_name, disable_analytics)
           paths == update_engine_paths(display_name, disable_analytics)
           req == [kind |-> "UpdateEngine",
                   name |-> engine_name(engine_id),
                   engine |-> patch,
                   update_mask |-> paths]
           call == CallPre("update_engine", args, 1, req,
                           [value |-> engines[engine_id]])
       IN IF engines[engine_id] = None
          THEN /\ lastCall' = Ended(call, "NotFound", NoRet)
               /\ UNCHANGED engines
          ELSE IF paths = << >> /\ ~emptyMaskOk
          THEN /\ lastCall' = Ended(call, "InvalidArgument", NoRet)
               /\ UNCHANGED engines
          ELSE LET new == ApplyEngineMask(Val(engines[engine_id]), patch,
                                          SeqToSet(paths))
               IN /\ engines' = [engines EXCEPT ![engine_id] = Some(new)]
                  /\ lastCall' = Ended(call, "ok",
                                       [kind |-> "Engine", id |-> engine_id,
                                        value |-> new])
    /\ UNCHANGED <<stores, jobs, pc, sources, docs, agentVars>>

\* delete_engine: one DeleteEngineRequest, then op.result().  The signature
\* has no ignore_missing parameter: passing one raises TypeError.
delete_engine(c, engine_id, ignore_missing) ==
    /\ pc[c] = Idle
    /\ LET args == [engine_id |-> engine_id,
                    ignore_missing |-> ignore_missing]
           req == [kind |-> "DeleteEngine", name |-> engine_name(engine_id)]
           pre == [missing |-> engines[engine_id] = None]
       IN IF ignore_missing # None
          THEN /\ lastCall' = Ended(CallPre("delete_engine", args, 0, NoReq,
                                            pre),
                                    "TypeError", NoRet)
               /\ UNCHANGED pc
          ELSE /\ pc' = [pc EXCEPT ![c] =
                            [state |-> "awaiting",
                             call |-> CallPre("delete_engine", args, 1, req,
                                              pre),
                             op |-> [done |-> FALSE, error |-> "none"]]]
               /\ UNCHANGED lastCall
    /\ UNCHANGED <<stores, engines, jobs, sources, docs, agentVars>>

(* ============ the remote side of create and delete LROs =============== *)

\* The service carries out the operation a caller is waiting on and marks
\* it done, with the error it ends in if any.
RemoteFinishOp(c) ==
    /\ pc[c].state = "awaiting"
    /\ ~pc[c].op.done
    /\ LET req == pc[c].call.req
           end(err) == [pc EXCEPT ![c].op = [done |-> TRUE, error |-> err]]
       IN CASE req.kind = "CreateDataStore" ->
                 IF stores[req.data_store_id] # None
                 THEN pc' = end("AlreadyExists") /\ UNCHANGED <<stores, engines>>
                 ELSE /\ stores' = [stores EXCEPT ![req.data_store_id] =
                                       Some(req.data_store)]
                      /\ pc' = end("none")
                      /\ UNCHANGED engines
            [] req.kind = "DeleteDataStore" ->
                 IF stores[req.name.id] = None
                 THEN pc' = end("NotFound") /\ UNCHANGED <<stores, engines>>
                 ELSE /\ stores' = [stores EXCEPT ![req.name.id] = None]
                      /\ pc' = end("none")
                      /\ UNCHANGED engines
            [] req.kind = "CreateEngine" ->
                 IF engines[req.engine_id] # None
                 THEN pc' = end("AlreadyExists") /\ UNCHANGED <<stores, engines>>
                 ELSE IF stores[req.engine.data_store_ids[1]] = None
                 THEN pc' = end("NotFound") /\ UNCHANGED <<stores, engines>>
                 ELSE /\ engines' = [engines EXCEPT ![req.engine_id] =
                                        Some(req.engine)]
                      /\ pc' = end("none")
                      /\ UNCHANGED stores
            [] req.kind = "DeleteEngine" ->
                 IF engines[req.name.id] = None
                 THEN pc' = end("NotFound") /\ UNCHANGED <<stores, engines>>
                 ELSE /\ engines' = [engines EXCEPT ![req.name.id] = None]
                      /\ pc' = end("none")
                      /\ UNCHANGED stores
    /\ UNCHANGED <<jobs, lastCall, sources, docs, agentVars>>

\* op.result(): returns once the operation is done, raising its error.
OpResult(c) ==
    /\ pc[c].state = "awaiting"
    /\ pc[c].op.done
    /\ LET call == pc[c].call
           err == pc[c].op.error
           id == IF call.fn \in {"create_datastore", "delete_datastore"}
                 THEN call.args.data_store_id ELSE call.args.engine_id
       IN lastCall' =
            IF err # "none" THEN Ended(call, err, NoRet)
            ELSE IF call.fn = "create_datastore"
            THEN Ended(call, "ok", [kind |-> "DataStore", id |-> id,
                                    value |-> call.req.data_store])
            ELSE IF call.fn = "create_engine"
            THEN Ended(call, "ok", [kind |-> "Engine", id |-> id,
                                    value |-> call.req.engine])
            ELSE Ended(call, "ok", NoRet)
    /\ pc' = [pc EXCEPT ![c] = Idle]
    /\ UNCHANGED <<stores, engines, jobs, sources, docs, agentVars>>

(* ======================= import documents ============================= *)

\* `x or ""` for an optional string.
OrEmpty(x) == IF x = None \/ Val(x) = "" THEN "" ELSE Val(x)

\* What the remote side holds for a branch when an import call begins.
BranchState(parent) ==
    [full_running |->
        \E j \in 1..Len(jobs) :
            /\ jobs[j].parent = parent
            /\ jobs[j].reconciliation_mode = "FULL"
            /\ jobs[j].status = "RUNNING",
     full_succeeded |->
        \E j \in 1..Len(jobs) :
            /\ jobs[j].parent = parent
            /\ jobs[j].reconciliation_mode = "FULL"
            /\ jobs[j].status = "SUCCEEDED",
     running |->
        \E j \in 1..Len(jobs) :
            jobs[j].parent = parent /\ jobs[j].status = "RUNNING",
     docs |-> docs[parent.store, parent.branch]]

\* The documents a source of a request holds: those of every object a GCS
\* source lists, or those of the table a BigQuery source names; a reference
\* to nothing holds none.
SourceDocs(source) ==
    LET held(r) == IF r \in SourceRefs THEN sources[r] ELSE {}
    IN IF source.kind = "gcs_source"
       THEN UNION {held(<<source.input_uris[i]>>) :
                      i \in 1..Len(source.input_uris)}
       ELSE held(<<source.project_id, source.dataset_id, source.table_id>>)

\* The service keys a document by the field the request names as id_field,
\* and by its own default key when the request names none.
Keyed(raw, id_field) ==
    [k \in DocKeys |->
        {d.body : d \in {x \in raw :
                            k = IF id_field = "" THEN x["_id"]
                                ELSE x[id_field]}}]

\* The documents an accepted import request is to write, by key.
Importing(req) == Keyed(SourceDocs(req.source), req.id_field)

\* What a branch holds once an import operation has succeeded: FULL leaves
\* exactly the imported documents, INCREMENTAL writes the imported ones and
\* leaves every other key as it was.
Reconcile(mode, old, new) ==
    IF mode = "FULL" THEN new
    ELSE [k \in DocKeys |-> IF new[k] # {} THEN new[k] ELSE old[k]]

\* A variant that leaves reconciliation_mode out of the request, so that
\* the request carries INCREMENTAL whatever the caller asked for.
import_gcs_request_mode_dropped(data_store_id, gcs_uris, kw) ==
    [kind |-> "ImportDocuments",
     parent |-> branch_path(data_store_id, kw.branch_id),
     source |-> [kind |-> "gcs_source", input_uris |-> gcs_uris,
                 data_schema |-> "content"],
     id_field |-> OrEmpty(kw.id_field),
     reconciliation_mode |-> "INCREMENTAL"]

\* A variant that leaves id_field out of the request.
import_gcs_request_id_field_dropped(data_store_id, gcs_uris, kw) ==
    [kind |-> "ImportDocuments",
     parent |-> branch_path(data_store_id, kw.branch_id),
     source |-> [kind |-> "gcs_source", input_uris |-> gcs_uris,
                 data_schema |-> "content"],
     id_field |-> "",
     reconciliation_mode |-> kw.reconciliation_mode]

\* The ImportDocumentsRequest import_documents_from_gcs builds.
import_gcs_request(data_store_id, gcs_uris, kw) ==
    [kind |-> "ImportDocuments",
     parent |-> branch_path(data_store_id, kw.branch_id),
     source |-> [kind |-> "gcs_source", input_uris |-> gcs_uris,
                 data_schema |-> "content"],
     id_field |-> OrEmpty(kw.id_field),
     reconciliation_mode |-> kw.reconciliation_mode]

\* The ImportDocumentsRequest import_documents_from_bigquery builds; the
\* function has no id_field parameter and the request leaves it unset.
import_bigquery_request(data_store_id, bq, kw) ==
    [kind |-> "ImportDocuments",
     parent |-> branch_path(data_store_id, kw.branch_id),
     source |-> [kind |-> "bigquery_source", project_id |-> bq.bq_project_id,
                 dataset_id |-> bq.bq_dataset, table_id |-> bq.bq_table,
                 data_schema |-> "custom"],
     id_field |-> "",
     reconciliation_mode |-> kw.reconciliation_mode]

\* A variant that keeps a per-branch "FULL import seen" flag and never
\* clears it: a FULL request is refused once the branch has had a FULL
\* operation, whatever became of it.
import_documents_stale_flag(req, js, storeExists, accept) ==
    IF /\ req.reconciliation_mode = "FULL"
       /\ \E j \in 1..Len(js) :
             /\ js[j].parent = req.parent
             /\ js[j].reconciliation_mode = "FULL"
    THEN "ConflictError"
    ELSE IF ~storeExists THEN "NotFound"
    ELSE IF ~accept THEN "RemoteError"
    ELSE "submitted"

\* op = doc_client.import_documents(request=req): the request is sent as
\* built, whatever operations js the branch already has; the call raises
\* what the service answers (NotFound for a missing store, or a rejection
\* such as bad request or quota) and otherwise yields the new operation.
import_documents(req, js, storeExists, accept) ==
    IF ~storeExists THEN "NotFound"
    ELSE IF ~accept THEN "RemoteError"
    ELSE "submitted"

\* A variant that submits a second time when the service rejects the
\* request.
ImportSubmit_retry(c, fn, args, req, poll, accept) ==
    LET pre == BranchState(req.parent)
        first == import_documents(req, jobs, stores[req.parent.store] # None,
                                  accept)
        outcome == IF first = "RemoteError" THEN "submitted" ELSE first
        j == Len(jobs) + 1
        call == [CallPre(fn, args, IF first = "RemoteError" THEN 2 ELSE 1,
                         req, pre) EXCEPT
                    !.job = IF outcome = "submitted" THEN j ELSE 0]
    IN IF outcome = "submitted"
       THEN /\ jobs' = Append(jobs, [parent |-> req.parent,
                                     reconciliation_mode |->
                                        req.reconciliation_mode,
                                     importing |-> Importing(req),
                                     status |-> "RUNNING"])
            /\ IF poll
               THEN /\ pc' = [pc EXCEPT ![c] = [state |-> "polling",
                                                call |-> call, job |-> j,
                                                at |-> "done?",
                                                cancel |-> FALSE,
                                                waited |-> 0]]
                    /\ UNCHANGED lastCall
               ELSE /\ lastCall' = Ended(call, "ok",
                                         [kind |-> "Operation", job |-> j])
                    /\ UNCHANGED pc
       ELSE /\ lastCall' = Ended(call, outcome, NoRet)
            /\ UNCHANGED <<jobs, pc>>

\* The body both import helpers share after building req: submit, then
\* either return the operation or enter _poll_operation.
ImportSubmit(c, fn, args, req, poll, accept) ==
    LET pre == BranchState(req.parent)
        outcome == import_documents(req, jobs, stores[req.parent.store] # None,
                                    accept)
        j == Len(jobs) + 1
        call == [CallPre(fn, args, 1, req, pre) EXCEPT
                    !.job = IF outcome = "submitted" THEN j ELSE 0]
    IN IF outcome = "submitted"
       THEN /\ jobs' = Append(jobs, [parent |-> req.parent,
                                     reconciliation_mode |->
                                        req.reconciliation_mode,
                                     importing |-> Importing(req),
                                     status |-> "RUNNING"])
            /\ IF poll
               THEN /\ pc' = [pc EXCEPT ![c] = [state |-> "polling",
                                                call |-> call, job |-> j,
                                                at |-> "done?",
                                                cancel |-> FALSE,
                                                waited |-> 0]]
                    /\ UNCHANGED lastCall
               ELSE /\ lastCall' = Ended(call, "ok",
                                         [kind |-> "Operation", job |-> j])
                    /\ UNCHANGED pc
       ELSE /\ lastCall' = Ended(call, outcome, NoRet)
            /\ UNCHANGED <<jobs, pc>>

import_documents_from_gcs(c, data_store_id, gcs_uris, kw, accept) ==
    /\ pc[c] = Idle
    /\ Len(jobs) < MaxJobs
    /\ ImportSubmit(c, "import_documents_from_gcs",
                    [data_store_id |-> data_store_id, gcs_uris |-> gcs_uris,
                     kw |-> kw],
                    import_gcs_request(data_store_id, gcs_uris, kw),
                    kw.poll, accept)
    /\ UNCHANGED <<stores, engines, sources, docs, agentVars>>

import_documents_from_bigquery(c, data_store_id, bq, kw, accept) ==
    /\ pc[c] = Idle
    /\ Len(jobs) < MaxJobs
    /\ ImportSubmit(c, "import_documents_from_bigquery",
                    [data_store_id |-> data_store_id, bq |-> bq, kw |-> kw],
                    import_bigquery_request(data_store_id, bq, kw),
                    kw.poll, accept)
    /\ UNCHANGED <<stores, engines, sources, docs, agentVars>>

\* One more status check, counted up to MaxPolls.
CountPoll(n) == IF n < MaxPolls THEN n + 1 ELSE n

\* A variant whose loop test is made once: the loop is left after the first
\* status check whatever it answered.
poll_operation_done_once(c) ==
    /\ pc[c].state = "polling"
    /\ pc[c].at = "done?"
    /\ pc' = [pc EXCEPT ![c].at = "result",
                        ![c].call.polls = CountPoll(@),
                        ![c].waited = 0]
    /\ UNCHANGED <<stores, engines, jobs, lastCall, sources, docs, agentVars>>

\* _poll_operation, loop test: `while not op.done()`.
poll_operation_done(c) ==
    /\ pc[c].state = "polling"
    /\ pc[c].at = "done?"
    /\ pc' = [pc EXCEPT ![c].at =
                            IF jobs[pc[c].job].status # "RUNNING"
                            THEN "result" ELSE "sleep",
                        ![c].call.polls = CountPoll(@),
                        ![c].waited = 0]
    /\ UNCHANGED <<stores, engines, jobs, lastCall, sources, docs, agentVars>>

\* _poll_operation, loop body: time.sleep(poll_interval_sec).  It raises
\* ValueError for a negative interval and otherwise returns after the
\* interval, which is no time at all for 0; `waited` is the time the wait
\* has been suspended since its last status check.
poll_operation_sleep(c) ==
    /\ pc[c].state = "polling"
    /\ pc[c].at = "sleep"
    /\ LET t == pc[c].call.args.kw.poll_interval_sec
       IN IF t < 0
          THEN /\ lastCall' = Ended(pc[c].call, "ValueError", NoRet)
               /\ pc' = [pc EXCEPT ![c] = Idle]
          ELSE /\ pc' = [pc EXCEPT ![c].at = "done?", ![c].waited = t]
               /\ UNCHANGED lastCall
    /\ UNCHANGED <<stores, engines, jobs, sources, docs, agentVars>>

\* A variant that leaves op.result() out: the operation is returned once
\* done, whatever its end.
poll_operation_result_unchecked(c) ==
    /\ pc[c].state = "polling"
    /\ pc[c].at = "result"
    /\ lastCall' = Ended(pc[c].call, "ok",
                         [kind |-> "Operation", job |-> pc[c].job])
    /\ pc' = [pc EXCEPT ![c] = Idle]
    /\ UNCHANGED <<stores, engines, jobs, sources, docs, agentVars>>

\* A variant that submits a failed import again: the operation that ended
\* in an error is set running once more and the wait goes on.
poll_operation_result_resubmit(c) ==
    /\ pc[c].state = "polling"
    /\ pc[c].at = "result"
    /\ IF jobs[pc[c].job].status = "FAILED"
       THEN /\ jobs' = [jobs EXCEPT ![pc[c].job].status = "RUNNING"]
            /\ pc' = [pc EXCEPT ![c].at = "done?"]
            /\ UNCHANGED lastCall
       ELSE /\ lastCall' = Ended(pc[c].call, "ok",
                                 [kind |-> "Operation", job |-> pc[c].job])
            /\ pc' = [pc EXCEPT ![c] = Idle]
            /\ UNCHANGED jobs
    /\ UNCHANGED <<stores, engines, sources, docs, agentVars>>

\* _poll_operation, after the loop: op.result() raises if the operation
\* failed; otherwise the completed operation is returned.
poll_operation_result(c) ==
    /\ pc[c].state = "polling"
    /\ pc[c].at = "result"
    /\ lastCall' =
          IF jobs[pc[c].job].status = "FAILED"
          THEN Ended(pc[c].call, "RemoteFailure", NoRet)
          ELSE Ended(pc[c].call, "ok",
                     [kind |-> "Operation", job |-> pc[c].job])
    /\ pc' = [pc EXCEPT ![c] = Idle]
    /\ UNCHANGED <<stores, engines, jobs, sources, docs, agentVars>>

\* The caller's side raises a cancellation signal while a wait is in
\* progress.  _poll_operation takes the operation and the interval only:
\* nothing in the loop reads the signal.
CancelSignal(c) ==
    /\ pc[c].state = "polling"
    /\ ~pc[c].cancel
    /\ pc' = [pc EXCEPT ![c].cancel = TRUE]
    /\ UNCHANGED <<stores, engines, jobs, lastCall, sources, docs, agentVars>>

\* The service finishes an import operation: it either succeeds and the
\* branch is reconciled with the imported documents in one step, or fails
\* and the branch is left as it was.
RemoteFinishJob(j, ok) ==
    /\ j \in 1..Len(jobs)
    /\ jobs[j].status = "RUNNING"
    /\ jobs' = [jobs EXCEPT ![j].status = IF ok THEN "SUCCEEDED" ELSE "FAILED"]
    /\ LET b == jobs[j].parent
       IN docs' = IF ok
                  THEN [docs EXCEPT ![b.store, b.branch] =
                           Reconcile(jobs[j].reconciliation_mode, @,
                                     jobs[j].importing)]
                  ELSE docs
    /\ UNCHANGED <<stores, engines, pc, lastCall, sources, agentVars>>

(* ========================= search client ============================== *)

\* DiscoverySearchClient(project_id, engine_id): a new client object takes
\* the place of the old one, with no token stored.
new_client(engine_id) ==
    /\ \A c \in Callers : pc[c] = Idle
    /\ client' = [engine_id |-> engine_id, _access_token |-> None]
    /\ UNCHANGED <<serviceVars, lastCall, adc, addressed, route, routeLog>>

\* _get_access_token: the token the call uses.  While self._access_token
\* is None the ambient credentials are loaded and refreshed and their token
\* is taken; afterwards the stored token is returned as it is.
get_access_token(cl, ambient) ==
    IF cl._access_token = None THEN ambient ELSE Val(cl._access_token)

\* search: builds the request, takes the bearer token from
\* _get_access_token (which stores it in the object), posts the request and
\* raises for an error status.
search(query, page_size, ok) ==
    /\ \A c \in Callers : pc[c] = Idle
    /\ LET token == get_access_token(client, adc)
           req == [kind |-> "Search", engine_id |-> client.engine_id,
                   query |-> query, pageSize |-> page_size,
                   authorization |-> token]
           call == CallPre("search",
                           [query |-> query, page_size |-> page_size], 1, req,
                           [adc |-> adc, stored |-> client._access_token])
       IN /\ client' = [client EXCEPT !._access_token = Some(token)]
          /\ lastCall' = IF ok
                         THEN Ended(call, "ok", [kind |-> "json"])
                         ELSE Ended(call, "HTTPError", NoRet)
    /\ UNCHANGED <<serviceVars, adc, addressed, route, routeLog>>

\* The token the ambient credentials gave expires: they give the next one.
TokenExpires ==
    /\ adc < MaxTokens
    /\ adc' = adc + 1
    /\ UNCHANGED <<serviceVars, lastCall, client, addressed, route, routeLog>>

(* ------------------------- input domains ------------------------------ *)

UpdateDataStoreKw ==
    [display_name : Opt(Names),
     industry_vertical : {None},
     solution_types : {None},
     content_config : Opt({"NO_CONTENT"}),
     update_mask_paths : {None, Some(<<"display_name">>)}]

CreateEngineKw ==
    [solution_type : {"SOLUTION_TYPE_SEARCH", "SOLUTION_TYPE_RECOMMENDATION",
                      "SOLUTION_TYPE_CHAT"},
     search_tier : {"SEARCH_TIER_STANDARD", "SEARCH_TIER_ENTERPRISE"},
     search_add_ons : {<< >>, <<"SEARCH_ADD_ON_LLM">>},
     exists_ok : {None, Some(TRUE)}]

GcsUris == {<< >>, <<"gs://b/a.json">>}

\* Table references with at most one of the three parts empty.
BigQueryRefs ==
    {r \in [bq_project_id : {"", "p"}, bq_dataset : {"", "d"},
            bq_table : {"", "t"}] :
        Cardinality({f \in DOMAIN r : r[f] = ""}) <= 1}

\* The keyword arguments of the import helpers, with the default poll
\* interval of 10 seconds.
GcsImportKw ==
    [id_field : {None, Some("id")},
     reconciliation_mode : {"FULL", "INCREMENTAL"},
     branch_id : BranchIds,
     poll : BOOLEAN,
     poll_interval_sec : {10}]

BigQueryImportKw ==
    [reconciliation_mode : {"FULL", "INCREMENTAL"},
     branch_id : BranchIds,
     poll : BOOLEAN,
     poll_interval_sec : {10}]

\* poll_interval_sec is a float the helpers pass on unchecked: a negative
\* value, zero and the default stand for the values a caller can give.
PollIntervals == {-1, 0, 10}

GcsPollKw ==
    [id_field : {None},
     reconciliation_mode : {"FULL", "INCREMENTAL"},
     branch_id : BranchIds,
     poll : BOOLEAN,
     poll_interval_sec : PollIntervals]

BigQueryPollKw ==
    [reconciliation_mode : {"FULL", "INCREMENTAL"},
     branch_id : BranchIds,
     poll : BOOLEAN,
     poll_interval_sec : PollIntervals]

NextImport ==
    \/ \E c \in Callers :
        \/ \E s \in StoreIds, u \in GcsUris, kw \in GcsImportKw,
              accept \in BOOLEAN :
              import_documents_from_gcs(c, s, u, kw, accept)
        \/ \E s \in StoreIds, bq \in BigQueryRefs, kw \in BigQueryImportKw,
              accept \in BOOLEAN :
              import_documents_from_bigquery(c, s, bq, kw, accept)
        \/ poll_operation_done(c)
        \/ poll_operation_sleep(c)
        \/ poll_operation_result(c)
    \/ \E j \in 1..MaxJobs, ok \in BOOLEAN : RemoteFinishJob(j, ok)

\* Sources that name something to import.
ImportableUris == {u \in GcsUris : u # << >>}
ImportableRefs == {r \in BigQueryRefs : \A f \in DOMAIN r : r[f] # ""}

\* The import helpers called with importable sources, blocking or not, by a
\* caller that may signal cancellation while it waits.
NextWait ==
    \/ \E c \in Callers :
        \/ \E s \in StoreIds, u \in ImportableUris, kw \in GcsImportKw,
              accept \in BOOLEAN :
              import_documents_from_gcs(c, s, u, kw, accept)
        \/ \E s \in StoreIds, bq \in ImportableRefs, kw \in BigQueryImportKw,
              accept \in BOOLEAN :
              import_documents_from_bigquery(c, s, bq, kw, accept)
        \/ poll_operation_done(c)
        \/ poll_operation_sleep(c)
        \/ poll_operation_result(c)
        \/ CancelSignal(c)
    \/ \E j \in 1..MaxJobs, ok \in BOOLEAN : RemoteFinishJob(j, ok)

\* The import helpers called with importable sources for the store whose
\* branch holds documents, on a service that accepts the requests.
NextReconcile ==
    \/ \E c \in Callers :
        \/ \E u \in ImportableUris, kw \in GcsImportKw :
              import_documents_from_gcs(c, "s1", u, kw, TRUE)
        \/ \E bq \in ImportableRefs, kw \in BigQueryImportKw :
              import_documents_from_bigquery(c, "s1", bq, kw, TRUE)
        \/ poll_operation_done(c)
        \/ poll_operation_sleep(c)
        \/ poll_operation_result(c)
    \/ \E j \in 1..MaxJobs, ok \in BOOLEAN : RemoteFinishJob(j, ok)

Queries == {"coffee", "parks"}

\* One DiscoverySearchClient used for searches while the ambient
\* credentials' tokens expire.
NextSearch ==
    \/ \E e \in {"e1", "e2"} : new_client(e)
    \/ \E q \in Queries, n \in {1, 10}, ok \in BOOLEAN : search(q, n, ok)
    \/ TokenExpires

\* The router of the agent.  `route` is the route_intent call in progress
\* and `routeLog` the calls that have ended, oldest first.
MaxRoutes == 2

\* What _extract_intent can return: a dict whose "intent" key is missing
\* (None) or holds a string.  The response schema names "nearby" and
\* "unsupported_intent"; "Nearby" stands for any other string.
IntentValues == {"nearby", "unsupported_intent", "Nearby"}

Extractions == [intent : Opt(IntentValues)]

\* What extract_slot_candidates can return.
SlotCandidates ==
    {[anchor_place |-> Some("cn tower"), entity |-> Some("cafe")],
     [anchor_place |-> None, entity |-> None]}

\* dict.get(key, default).
DictGet(d, key, default) == IF d[key] = None THEN default ELSE Val(d[key])

\* The dispatch of route_intent with the missing key read as "nearby".
RouteHandler_default_nearby(extraction) ==
    IF DictGet(extraction, "intent", "nearby") = "nearby"
    THEN "handle_nearby"
    ELSE "handle_unsupported_intent"

\* route_intent, lines 101-106: the handler the extraction selects.
RouteHandler(extraction) ==
    IF DictGet(extraction, "intent", "unsupported_intent") = "nearby"
    THEN "handle_nearby"
    ELSE "handle_unsupported_intent"

handle_unsupported_intent(user_query) ==
    [intent |-> "unsupported_intent", query |-> user_query]

run_nearby_workflow(user_query, slots) ==
    [intent |-> "nearby", query |-> user_query, slots |-> slots]

RouteEnded(r, outcome, ret) ==
    [query |-> r.query, extraction |-> r.extraction, handlers |-> r.handlers,
     workflow |-> r.workflow, outcome |-> outcome, ret |-> ret]

\* route_intent(user_query) is called: it calls _extract_intent.
route_intent(user_query) ==
    /\ route.at = "idle"
    /\ Len(routeLog) < MaxRoutes
    /\ route' = [at |-> "extract", query |-> user_query, extraction |-> None,
                 handlers |-> << >>, workflow |-> None]
    /\ UNCHANGED <<serviceVars, lastCall, client, adc, addressed, routeLog>>

\* _extract_intent raises (the model call or json.loads fails): route_intent
\* raises with it, no handler is called.
extract_intent_raises ==
    /\ route.at = "extract"
    /\ routeLog' = Append(routeLog, RouteEnded(route, "error", NoRet))
    /\ route' = [at |-> "idle", handlers |-> << >>]
    /\ UNCHANGED <<serviceVars, lastCall, client, adc, addressed>>

\* _extract_intent returns extraction; route_intent reads the intent and
\* calls the handler it selects.  handle_unsupported_intent returns at
\* once; handle_nearby runs the workflow, which calls the slot extractor.
extract_intent_returns(extraction) ==
    /\ route.at = "extract"
    /\ LET handler == RouteHandler(extraction)
           r == [route EXCEPT !.extraction = Some(extraction),
                              !.handlers = Append(@, handler)]
       IN IF handler = "handle_nearby"
          THEN /\ route' = [r EXCEPT !.at = "nearby"]
               /\ UNCHANGED routeLog
          ELSE /\ routeLog' =
                     Append(routeLog,
                            RouteEnded(r, "ok",
                                       handle_unsupported_intent(r.query)))
               /\ route' = [at |-> "idle", handlers |-> << >>]
    /\ UNCHANGED <<serviceVars, lastCall, client, adc, addressed>>

\* extract_slot_candidates returns slots: run_nearby_workflow builds its
\* result, handle_nearby returns it and route_intent returns it.
nearby_returns(slots) ==
    /\ route.at = "nearby"
    /\ LET result == run_nearby_workflow(route.query, slots)
           r == [route EXCEPT !.workflow = Some(result)]
       IN routeLog' = Append(routeLog, RouteEnded(r, "ok", result))
    /\ route' = [at |-> "idle", handlers |-> << >>]
    /\ UNCHANGED <<serviceVars, lastCall, client, adc, addressed>>

\* extract_slot_candidates raises: the workflow, handle_nearby and
\* route_intent raise with it.
nearby_raises ==
    /\ route.at = "nearby"
    /\ routeLog' = Append(routeLog, RouteEnded(route, "error", NoRet))
    /\ route' = [at |-> "idle", handlers |-> << >>]
    /\ UNCHANGED <<serviceVars, lastCall, client, adc, addressed>>

NextRouter ==
    \/ \E q \in Queries : route_intent(q)
    \/ extract_intent_raises
    \/ \E x \in Extractions : extract_intent_returns(x)
    \/ \E slots \in SlotCandidates : nearby_returns(slots)
    \/ nearby_raises

\* The store operations seen with their collection.  The lifecycle actions
\* above work in the default collection; here a store is the pair of its
\* collection and its id, `addressed.created` holds the stores that exist
\* and `addressed.call` the operation made last.
CollectionIds == {"default_collection", "c2"}

\* def get_datastore(project_id, location, data_store_id): three parameters.
get_datastore_params == 3

collection_path(collection_id) == [collection |-> collection_id]

\* The store the service reaches for a name built by datastore_name: the
\* path "projects/p/locations/l/dataStores/<id>" has no collection segment
\* and names the store of that id in the default collection.
StoreReached(name) == <<"default_collection", name.id>>

AddressedCall(fn, data_store_id, collection_id, passed, outcome, reached) ==
    [fn |-> fn, data_store_id |-> data_store_id,
     collection_id |-> collection_id, passed |-> passed,
     existed |-> <<collection_id, data_store_id>> \in addressed.created,
     outcome |-> outcome, reached |-> reached]

\* create_datastore(..., collection_id=c): the store is created under
\* parent = collection_path(c).
create_datastore_in(data_store_id, collection_id) ==
    /\ \A c \in Callers : pc[c] = Idle
    /\ LET parent == collection_path(collection_id)
           store == <<parent.collection, data_store_id>>
       IN IF store \in addressed.created
          THEN addressed' =
                  [addressed EXCEPT !.call =
                      AddressedCall("create_datastore", data_store_id,
                                    collection_id, TRUE, "AlreadyExists",
                                    None)]
          ELSE addressed' =
                  [created |-> addressed.created \cup {store},
                   call |-> AddressedCall("create_datastore", data_store_id,
                                          collection_id, TRUE, "ok",
                                          Some(store))]
    /\ UNCHANGED <<serviceVars, lastCall, client, adc, route, routeLog>>

\* get_datastore made for a store of collection collection_id.  The
\* function has no collection parameter: a call that passes the collection
\* has one argument too many, a call that leaves it out builds
\* datastore_name(data_store_id).
get_datastore_in(data_store_id, collection_id, passed) ==
    /\ \A c \in Callers : pc[c] = Idle
    /\ LET nargs == IF passed THEN get_datastore_params + 1
                    ELSE get_datastore_params
           store == StoreReached(datastore_name(data_store_id))
       IN addressed' =
             [addressed EXCEPT !.call =
                 IF CallRaisesTypeError(nargs, get_datastore_params)
                    \/ CallRaisesTypeError(datastore_name_args_get,
                                           datastore_name_params)
                 THEN AddressedCall("get_datastore", data_store_id,
                                    collection_id, passed, "TypeError", None)
                 ELSE IF store \in addressed.created
                 THEN AddressedCall("get_datastore", data_store_id,
                                    collection_id, passed, "ok", Some(store))
                 ELSE AddressedCall("get_datastore", data_store_id,
                                    collection_id, passed, "NotFound",
                                    Some(store))]
    /\ UNCHANGED <<serviceVars, lastCall, client, adc, route, routeLog>>

\* update_datastore(..., collection_id=c): the name is built by
\* datastore_name(project_id, location, data_store_id, collection_id).
update_datastore_in(data_store_id, collection_id) ==
    /\ \A c \in Callers : pc[c] = Idle
    /\ LET store == StoreReached(datastore_name(data_store_id))
       IN addressed' =
             [addressed EXCEPT !.call =
                 IF CallRaisesTypeError(datastore_name_args_update,
                                        datastore_name_params)
                 THEN AddressedCall("update_datastore", data_store_id,
                                    collection_id, TRUE, "TypeError", None)
                 ELSE IF store \in addressed.created
                 THEN AddressedCall("update_datastore", data_store_id,
                                    collection_id, TRUE, "ok", Some(store))
                 ELSE AddressedCall("update_datastore", data_store_id,
                                    collection_id, TRUE, "NotFound",
                                    Some(store))]
    /\ UNCHANGED <<serviceVars, lastCall, client, adc, route, routeLog>>

\* delete_datastore(..., collection_id=c): the name is built by
\* datastore_name(project_id, location, data_store_id, collection_id).
delete_datastore_in(data_store_id, collection_id) ==
    /\ \A c \in Callers : pc[c] = Idle
    /\ LET store == StoreReached(datastore_name(data_store_id))
       IN IF CallRaisesTypeError(datastore_name_args_delete,
                                 datastore_name_params)
          THEN addressed' =
                  [addressed EXCEPT !.call =
                      AddressedCall("delete_datastore", data_store_id,
                                    collection_id, TRUE, "TypeError", None)]
          ELSE IF store \in addressed.created
          THEN addressed' =
                  [created |-> addressed.created \ {store},
                   call |-> AddressedCall("delete_datastore", data_store_id,
                                          collection_id, TRUE, "ok",
                                          Some(store))]
          ELSE addressed' =
                  [addressed EXCEPT !.call =
                      AddressedCall("delete_datastore", data_store_id,
                                    collection_id, TRUE, "NotFound",
                                    Some(store))]
    /\ UNCHANGED <<serviceVars, lastCall, client, adc, route, routeLog>>

NextAddress ==
    \E id \in StoreIds, col \in CollectionIds :
        \/ create_datastore_in(id, col)
        \/ \E passed \in BOOLEAN : get_datastore_in(id, col, passed)
        \/ update_datastore_in(id, col)
        \/ delete_datastore_in(id, col)

\* The steps a caller takes inside the import helpers and their wait.
PollCallerNext ==
    \E c \in Callers :
        \/ \E u \in ImportableUris, kw \in GcsPollKw :
              import_documents_from_gcs(c, "s1", u, kw, TRUE)
        \/ \E bq \in ImportableRefs, kw \in BigQueryPollKw :
              import_documents_from_bigquery(c, "s1", bq, kw, TRUE)
        \/ poll_operation_done(c)
        \/ poll_operation_sleep(c)
        \/ poll_operation_result(c)

\* The steps of a wait in progress.
PollWaitNext ==
    \E c \in Callers :
        \/ poll_operation_done(c)
        \/ poll_operation_sleep(c)
        \/ poll_operation_result(c)

\* The import helpers called with any poll interval; the service finishes
\* an operation when it does, if ever.
NextPoll ==
    \/ PollCallerNext
    \/ \E j \in 1..MaxJobs, ok \in BOOLEAN : RemoteFinishJob(j, ok)

NextStore ==
    \E c \in Callers :
        \/ \E id \in StoreIds, n \in Names, x \in {None, Some(TRUE)} :
              create_datastore(c, id, n, x)
        \/ \E id \in StoreIds : get_datastore(c, id)
        \/ \E id \in StoreIds, kw \in UpdateDataStoreKw :
              update_datastore(c, id, kw)
        \/ \E id \in StoreIds, x \in {None, Some(TRUE)} :
              delete_datastore(c, id, x)
        \/ RemoteFinishOp(c)
        \/ OpResult(c)

NextEngine ==
    \E c \in Callers :
        \/ \E id \in EngineIds, s \in StoreIds, kw \in CreateEngineKw :
              create_engine(c, id, "a", s, kw)
        \/ \E id \in EngineIds : get_engine(c, id)
        \/ \E id \in EngineIds, n \in Opt(Names), d \in Opt(BOOLEAN),
              ok \in BOOLEAN :
              update_engine(c, id, n, d, ok)
        \/ \E id \in EngineIds, x \in {None, Some(TRUE)} :
              delete_engine(c, id, x)
        \/ RemoteFinishOp(c)
        \/ OpResult(c)

NextRegistry == NextEngine \/ NextStore

SpecRegistry == Init /\ [][NextRegistry]_vars
SpecImport == Init /\ [][NextImport]_vars
SpecWait == Init /\ [][NextWait]_vars
SpecReconcile == InitReconcile /\ [][NextReconcile]_vars
SpecSearch == Init /\ [][NextSearch]_vars

SpecRouter == Init /\ [][NextRouter]_vars
SpecAddress == Init /\ [][NextAddress]_vars

\* A caller inside _poll_operation keeps running: its thread is scheduled
\* and time.sleep returns.  Nothing obliges the service to finish an
\* operation.
SpecPoll == Init /\ [][NextPoll]_vars /\ WF_vars(PollWaitNext)

Next == NextRegistry \/ NextImport
Spec == Init /\ [][Next]_vars

(* ============================ properties ============================== *)

ImportFns == {"import_documents_from_gcs", "import_documents_from_bigquery"}
UpdateFns == {"update_datastore", "update_engine"}
CreateFns == {"create_datastore", "create_engine"}
DeleteFns == {"delete_datastore", "delete_engine"}

\* The calls that have ended or are blocked on an LRO; the latter have the
\* outcome "pending".
AllCalls ==
    {lastCall} \cup {Ended(pc[c].call, "pending", NoRet) :
                        c \in {d \in Callers : pc[d].state # "idle"}}

\* The source of an import request names something to import.
ValidSource(req) ==
    IF req.source.kind = "gcs_source"
    THEN req.source.input_uris # << >>
    ELSE /\ req.source.project_id # ""
         /\ req.source.dataset_id # ""
         /\ req.source.table_id # ""

\* The fields an update call's caller supplied.
Supplied(k) ==
    IF k.fn = "update_datastore"
    THEN {f \in {"display_name", "industry_vertical", "solution_types",
                 "content_config"} : k.args.kw[f] # None}
    ELSE {f \in {"display_name", "disable_analytics"} : k.args[f] # None}

\* The exists_ok / ignore_missing argument of a create or delete call.
ExistsOk(k) ==
    IF k.fn = "create_datastore" THEN k.args.exists_ok ELSE k.args.kw.exists_ok

\* The id a create call was asked to create.
CreateId(k) ==
    IF k.fn = "create_datastore" THEN k.args.data_store_id
    ELSE k.args.engine_id

\* C1: at most one FULL import operation is RUNNING per branch: a FULL
\* import submitted while the branch has a FULL operation RUNNING starts no
\* second operation.
C1_OneFullRunningPerBranch ==
    \A i, j \in 1..Len(jobs) :
        (/\ i # j
         /\ jobs[i].parent = jobs[j].parent
         /\ jobs[i].reconciliation_mode = "FULL"
         /\ jobs[j].reconciliation_mode = "FULL"
         /\ jobs[i].status = "RUNNING")
        => jobs[j].status # "RUNNING"

\* C2: a FULL import of a valid source, submitted when the branch has a
\* SUCCEEDED FULL operation and no RUNNING one, is sent to the remote
\* service and does not fail with ConflictError; when the service accepts
\* it, the branch has a new operation.
C2_FullAcceptedAfterSuccess ==
    \A k \in AllCalls :
        (/\ k.fn \in ImportFns
         /\ k.req.reconciliation_mode = "FULL"
         /\ ValidSource(k.req)
         /\ k.pre.full_succeeded
         /\ ~k.pre.full_running)
        => /\ k.nreq = 1
           /\ k.outcome \in {"ok", "pending", "RemoteFailure", "RemoteError"}
           /\ k.outcome = "ok" =>
                 /\ k.ret.job \in 2..Len(jobs)
                 /\ jobs[k.ret.job].parent = k.req.parent
                 /\ jobs[k.ret.job].reconciliation_mode = "FULL"

\* C2 witness: a FULL import returned its operation after an earlier FULL
\* operation on the same branch had SUCCEEDED.
C2_Witness ==
    /\ lastCall.fn \in ImportFns
    /\ lastCall.req.reconciliation_mode = "FULL"
    /\ ValidSource(lastCall.req)
    /\ lastCall.pre.full_succeeded
    /\ ~lastCall.pre.full_running
    /\ lastCall.outcome = "ok"
    /\ lastCall.ret.job = 2
    /\ jobs[1].status = "SUCCEEDED"
    /\ jobs[1].reconciliation_mode = "FULL"

\* C3: an INCREMENTAL import whose request has no id field fails with
\* ValidationError and sends no remote request.
C3_IncrementalNeedsIdField ==
    \A k \in AllCalls :
        (/\ k.fn \in ImportFns
         /\ k.req.reconciliation_mode = "INCREMENTAL"
         /\ k.req.id_field = "")
        => (k.outcome = "ValidationError" /\ k.nreq = 0)

\* C4: an import from GCS with an empty URI sequence fails with
\* ValidationError and sends no remote request.
C4_EmptyUrisRejected ==
    \A k \in AllCalls :
        (k.fn = "import_documents_from_gcs" /\ k.args.gcs_uris = << >>)
        => (k.outcome = "ValidationError" /\ k.nreq = 0)

\* C5: an import from BigQuery whose project, dataset or table is empty is
\* rejected and sends no remote request.
C5_IncompleteTableRejected ==
    \A k \in AllCalls :
        (k.fn = "import_documents_from_bigquery" /\ ~ValidSource(k.req))
        => (k.outcome \notin {"ok", "pending"} /\ k.nreq = 0)

\* C6: an update call that supplies some fields sends one update request
\* whose field mask is exactly the supplied fields, each once.
C6_MaskIsSuppliedFields ==
    (lastCall.fn \in UpdateFns /\ Supplied(lastCall) # {})
    => /\ lastCall.nreq = 1
       /\ SeqToSet(lastCall.req.update_mask) = Supplied(lastCall)
       /\ Len(lastCall.req.update_mask) = Cardinality(Supplied(lastCall))

\* C7: an update call that supplies no field fails with ValidationError and
\* sends no update request.
C7_EmptyUpdateRejected ==
    (lastCall.fn \in UpdateFns /\ Supplied(lastCall) = {})
    => (lastCall.outcome = "ValidationError" /\ lastCall.nreq = 0)

\* C8: create with exists_ok=True returns the resource with the requested
\* id whether or not it already existed, and does not fail with
\* AlreadyExists.
C8_CreateExistsOkIdempotent ==
    (lastCall.fn \in CreateFns /\ ExistsOk(lastCall) = Some(TRUE))
    => /\ lastCall.outcome = "ok"
       /\ lastCall.ret.id = CreateId(lastCall)

\* C9: deleting a resource the remote side does not hold succeeds with
\* ignore_missing=True and fails with NotFound otherwise.
C9_DeleteHonoursIgnoreMissing ==
    (lastCall.fn \in DeleteFns /\ lastCall.pre.missing)
    => IF lastCall.args.ignore_missing = Some(TRUE)
       THEN lastCall.outcome = "ok"
       ELSE lastCall.outcome = "NotFound"

\* C10: a create_datastore or delete_datastore call sends exactly one
\* remote request and returns only once its operation is done: when the
\* call has returned and nothing else has been started, a created store is
\* there and a deleted store is gone.
C10_SyncCreateDelete ==
    /\ (/\ lastCall.fn = "create_datastore"
        /\ lastCall.args.exists_ok = None)
       => /\ lastCall.nreq = 1
          /\ (lastCall.outcome = "ok" /\ \A c \in Callers : pc[c] = Idle) =>
                stores[lastCall.args.data_store_id] =
                    Some(lastCall.req.data_store)
    /\ (/\ lastCall.fn = "delete_datastore"
        /\ lastCall.args.ignore_missing = None)
       => /\ lastCall.nreq = 1
          /\ lastCall.outcome \in {"ok", "NotFound"}
          /\ (\A c \in Callers : pc[c] = Idle) =>
                stores[lastCall.args.data_store_id] = None

\* C11: a create_engine call naming a data store the remote side does not
\* hold fails with ValidationError and sends no create-engine request.
C11_UnknownStoreRejected ==
    \A k \in AllCalls :
        (/\ k.fn = "create_engine"
         /\ k.args.kw.exists_ok = None
         /\ k.pre.store_missing)
        => (k.outcome = "ValidationError" /\ k.nreq = 0)

\* C12: a create-engine request carries a search engine configuration only
\* when the solution type is SEARCH; for RECOMMENDATION and CHAT neither
\* the search tier nor the add-ons supplied are transmitted, and an engine
\* the service holds has a configuration only if it is a SEARCH engine.
C12_SearchConfigOnlyForSearch ==
    /\ \A k \in AllCalls :
          (k.fn = "create_engine" /\ k.nreq = 1)
          => /\ k.req.engine.solution_type = k.args.kw.solution_type
             /\ k.req.engine.search_engine_config # None
                   => k.args.kw.solution_type = "SOLUTION_TYPE_SEARCH"
    /\ \A e \in EngineIds :
          (engines[e] # None /\ Val(engines[e]).search_engine_config # None)
          => Val(engines[e]).solution_type = "SOLUTION_TYPE_SEARCH"

\* C12 witness: a RECOMMENDATION or CHAT engine was created by a call that
\* supplied the ENTERPRISE tier and an add-on, and the engine the service
\* holds has no search configuration.
C12_Witness ==
    /\ lastCall.fn = "create_engine"
    /\ lastCall.outcome = "ok"
    /\ lastCall.args.kw.solution_type # "SOLUTION_TYPE_SEARCH"
    /\ lastCall.args.kw.search_tier = "SEARCH_TIER_ENTERPRISE"
    /\ lastCall.args.kw.search_add_ons # << >>
    /\ engines[lastCall.args.engine_id] # None
    /\ Val(engines[lastCall.args.engine_id]).search_engine_config = None

\* The statuses an import operation ends in.
Terminal == {"SUCCEEDED", "FAILED", "CANCELLED"}

\* The status changes an import operation may make.
AllowedMoves ==
    {<<"PENDING", "RUNNING">>, <<"RUNNING", "SUCCEEDED">>,
     <<"RUNNING", "FAILED">>, <<"PENDING", "CANCELLED">>,
     <<"RUNNING", "CANCELLED">>}

\* C13: the outcome of a blocking import follows what the status checks of
\* its operation answered: the call ends after at least one check, it
\* returns normally exactly when the operation SUCCEEDED, and it raises the
\* operation's error exactly when the operation FAILED; a FAILED operation
\* is never reported as a success.
C13_OutcomeFollowsPolls ==
    (/\ lastCall.fn \in ImportFns
     /\ lastCall.args.kw.poll
     /\ lastCall.job # 0
     /\ lastCall.outcome # "ValueError")
    => /\ lastCall.polls >= 1
       /\ lastCall.outcome \in {"ok", "RemoteFailure"}
       /\ lastCall.outcome = "ok" <=> jobs[lastCall.job].status = "SUCCEEDED"
       /\ lastCall.outcome = "RemoteFailure"
             <=> jobs[lastCall.job].status = "FAILED"

\* C13 witness: a blocking import whose first status check found the
\* operation not done raised the error the operation ended in.
C13_Witness ==
    /\ lastCall.fn \in ImportFns
    /\ lastCall.args.kw.poll
    /\ lastCall.polls >= 2
    /\ lastCall.outcome = "RemoteFailure"
    /\ jobs[lastCall.job].status = "FAILED"

\* C14: a blocking wait with a timeout of TimeoutPolls status checks ends
\* in OperationTimeout rather than checking again: no blocking import makes
\* more status checks than the budget.
C14_TimeoutEndsWait ==
    \A k \in AllCalls :
        (k.fn \in ImportFns /\ k.args.kw.poll) => k.polls <= TimeoutPolls

\* C15: once a cancellation signal has been raised on a blocking wait, the
\* next step of the wait is to return Cancelled: it makes no further status
\* check and does not sleep again.
C15_CancelStopsWait ==
    [][\A c \in Callers :
          (pc[c].state = "polling" /\ pc[c].cancel /\ pc'[c] # pc[c])
          => (pc'[c] = Idle /\ lastCall'.outcome = "Cancelled")]_vars

C17_PollFlagDecidesWait ==
    /\ \A c \in Callers :
          pc[c].state = "polling" => pc[c].call.args.kw.poll
    /\ (/\ lastCall.fn \in ImportFns
        /\ lastCall.job # 0
        /\ lastCall.outcome # "ValueError")
       => IF lastCall.args.kw.poll
          THEN /\ jobs[lastCall.job].status \in Terminal
               /\ lastCall.polls >= 1
          ELSE /\ lastCall.polls = 0
               /\ lastCall.outcome = "ok"
               /\ lastCall.ret = [kind |-> "Operation", job |-> lastCall.job]

\* C17 witness: a blocking import returned its operation after status
\* checks that first found it not done and then SUCCEEDED.
C17_Witness ==
    /\ lastCall.fn \in ImportFns
    /\ lastCall.args.kw.poll
    /\ lastCall.outcome = "ok"
    /\ lastCall.polls >= 2
    /\ jobs[lastCall.job].status = "SUCCEEDED"

\* C18: an import call submits at most one import request, and when the
\* service refuses it the error ends the call: no operation was started,
\* no status check was made and the caller is not left waiting.
C18_SubmitOnceNoPollOnFailure ==
    /\ \A k \in AllCalls : k.fn \in ImportFns => k.nreq <= 1
    /\ (lastCall.fn \in ImportFns
        /\ lastCall.outcome \in {"NotFound", "RemoteError"})
       => (lastCall.nreq = 1 /\ lastCall.job = 0 /\ lastCall.polls = 0)
    /\ \A c \in Callers :
          pc[c].state = "polling" => pc[c].call.job \in 1..Len(jobs)

\* C18 witness: a blocking import whose one request the service rejected
\* has raised the rejection.
C18_Witness ==
    /\ lastCall.fn \in ImportFns
    /\ lastCall.args.kw.poll
    /\ lastCall.outcome = "RemoteError"
    /\ lastCall.nreq = 1
    /\ lastCall.polls = 0

\* The documents held by the source an import call's arguments name.
ArgDocs(k) ==
    LET held(r) == IF r \in SourceRefs THEN sources[r] ELSE {}
    IN IF k.fn = "import_documents_from_gcs"
       THEN UNION {held(<<k.args.gcs_uris[i]>>) :
                      i \in 1..Len(k.args.gcs_uris)}
       ELSE held(<<k.args.bq.bq_project_id, k.args.bq.bq_dataset,
                   k.args.bq.bq_table>>)

\* The id field an import call's arguments name ("" for none).
ArgIdField(k) ==
    IF k.fn = "import_documents_from_gcs" THEN OrEmpty(k.args.kw.id_field)
    ELSE ""

\* What the branch an import call's arguments name holds now.
ArgBranchDocs(k) == docs[k.args.data_store_id, k.args.kw.branch_id]

\* The import call k started an operation in the given mode on a branch
\* with no operation RUNNING, that operation has SUCCEEDED and no operation
\* has been started after it: nothing else has written to the branch since
\* the call began.
ImportedAlone(k, mode) ==
    /\ k.fn \in ImportFns
    /\ k.job # 0
    /\ k.job = Len(jobs)
    /\ jobs[k.job].status = "SUCCEEDED"
    /\ k.args.kw.reconciliation_mode = mode
    /\ ~k.pre.running

\* C19: FULL is a replace: once the operation of a FULL import has
\* SUCCEEDED, the branch holds exactly the documents of the source the
\* caller named, each under its key with the source's payload, and nothing
\* else.
C19_FullReplaces ==
    \A k \in AllCalls :
        ImportedAlone(k, "FULL")
        => ArgBranchDocs(k) = Keyed(ArgDocs(k), ArgIdField(k))

\* C19 witness: a FULL import SUCCEEDED on a branch that held a document
\* the source does not have; that document is gone and a document of the
\* source is there.
C19_Witness ==
    /\ ImportedAlone(lastCall, "FULL")
    /\ lastCall.pre.docs["3"] = {"c"}
    /\ ArgBranchDocs(lastCall)["3"] = {}
    /\ \E k \in DocKeys : ArgBranchDocs(lastCall)[k] # {}

\* C20: INCREMENTAL is a pure merge: once the operation of an INCREMENTAL
\* import has SUCCEEDED, every document of the source the caller named is
\* in the branch under its key (the id field the caller named, the
\* service's default key when none was named), and every other key holds
\* what it held when the call began.
C20_IncrementalMerges ==
    \A k \in AllCalls :
        ImportedAlone(k, "INCREMENTAL")
        => LET src == Keyed(ArgDocs(k), ArgIdField(k))
           IN \A d \in DocKeys :
                 ArgBranchDocs(k)[d] =
                    IF src[d] # {} THEN src[d] ELSE k.pre.docs[d]

\* C20 witness: an INCREMENTAL import naming the id field `id` SUCCEEDED on
\* a branch that held a document the source does not have; the source's
\* document is there under its `id` and the other document is as it was.
C20_Witness ==
    /\ ImportedAlone(lastCall, "INCREMENTAL")
    /\ lastCall.fn = "import_documents_from_gcs"
    /\ lastCall.args.kw.id_field = {"id"}
    /\ lastCall.pre.docs["3"] = {"c"}
    /\ ArgBranchDocs(lastCall)["3"] = {"c"}
    /\ ArgBranchDocs(lastCall)["2"] = {"a"}

\* C21: the search client stores no credential: its object never holds a
\* bearer token, and every search request carries the token the ambient
\* credentials give at the time of the call.
C21_NoStoredCredential ==
    /\ client._access_token = None
    /\ lastCall.fn = "search" => lastCall.req.authorization = lastCall.pre.adc

\* The value an update call's caller supplied for field f.
SuppliedValue(k, f) ==
    IF k.fn = "update_datastore" THEN Val(k.args.kw[f]) ELSE Val(k.args[f])

\* C22: an update call that supplies some fields of a resource the service
\* holds succeeds, and the resource then has the supplied values in those
\* fields and its earlier values in every other field; so of two updates
\* with disjoint fields, in either order, neither undoes the other and
\* both changes are in the final state.
C22_DisjointUpdatesBothLand ==
    (/\ lastCall.fn \in UpdateFns
     /\ Supplied(lastCall) # {}
     /\ lastCall.pre.value # None)
    => /\ lastCall.outcome = "ok"
       /\ \A f \in DOMAIN Val(lastCall.pre.value) :
             lastCall.ret.value[f] =
                IF f \in Supplied(lastCall) THEN SuppliedValue(lastCall, f)
                ELSE Val(lastCall.pre.value)[f]

\* C23: the wait is never a tight spin: whenever a wait is about to check
\* its operation again, it has been suspended for a strictly positive time
\* since the check before, whatever poll interval the call was given.
C23_NoTightSpin ==
    \A c \in Callers :
        (/\ pc[c].state = "polling"
         /\ pc[c].at = "done?"
         /\ pc[c].call.polls >= 1)
        => pc[c].waited > 0

\* C24: the blocking wait always returns: a caller that is waiting on an
\* import operation is eventually back from the call, also when the
\* service never finishes the operation.
C24_WaitReturns ==
    \A c \in Callers : (pc[c].state = "polling") ~> (pc[c] = Idle)

AddressingFns == {"get_datastore", "update_datastore", "delete_datastore"}

\* C25: addressing round-trips on the collection: get_datastore,
\* update_datastore and delete_datastore called for a store that
\* create_datastore created in collection c reach the remote call and
\* address that same store, for every collection c.
C25_AddressingRoundTrips ==
    (addressed.call.fn \in AddressingFns /\ addressed.call.existed)
    => /\ addressed.call.outcome = "ok"
       /\ addressed.call.reached =
             Some(<<addressed.call.collection_id,
                    addressed.call.data_store_id>>)

====
